---- MODULE Spec2Model ----
(***************************************************************************)
(* Model of failawarehttp (src/client.go): one FailAwareHTTPClient built   *)
(* by NewClient and one call of FailAwareHTTPClient.Do on it, with the     *)
(* transport (net/http Client.Do), the random source (rand.Intn), the      *)
(* clock and the request's cancellation signal as the environment.         *)
(*                                                                         *)
(* Durations and timestamps are in microseconds.  A response is modelled   *)
(* by its status code, 0 standing for a nil *http.Response; an error by    *)
(* its text, "nil" standing for a nil error.                               *)
(***************************************************************************)
EXTENDS Integers, Sequences, FiniteSets

VARIABLES
    callerOptions, \* history: the options the caller gave NewClient
    options,       \* c.options, the effective options NewClient stored
    origBody,      \* the body the caller attached to originalReq
    reqBody,       \* what originalReq.Body points to: "nil", "orig", "replay"
    replay,        \* the reader that bytes.NewBuffer(originalBody) made last
    originalBody,  \* Do's originalBody, the []byte readBody returned
    lastResponse,  \* Do's lastResponse
    lastError,     \* Do's lastError
    retried,       \* Do's retried
    errLog,        \* Do's errLog
    jitter,        \* Do's jitter, the wait expJitterBackOff returned
    pc,            \* where Do is
    now,           \* the clock time.Now() reads
    cancelled,     \* whether the request's context is cancelled
    retResp,       \* the *http.Response Do returned
    retErr,        \* the error Do returned
    debugLog,      \* what log.Debugf was given, in order
    outcomes,      \* history: what the transport answered, per call
    sent,          \* history: the body the transport was handed, per call
    waits,         \* history: the waits that elapsed, in order
    partlyRead,    \* history: a transport call stopped reading inside its body
    cancelPc,      \* history: where Do was when the signal fired
    cancelCalls,   \* history: the transport calls made when the signal fired
    conc           \* concurrent Do calls and the random source they share

\* The state of the one call that is followed step by step.
callVars == <<callerOptions, options, origBody, reqBody, replay, originalBody,
              lastResponse, lastError, retried, errLog, jitter, pc, now,
              cancelled, retResp, retErr, debugLog, outcomes, sent, waits,
              partlyRead, cancelPc, cancelCalls>>

vars == <<callVars, conc>>

(***************************************************************************)
(* Bounds of the model.                                                    *)
(***************************************************************************)
MaxMaxRetries == 2   \* the largest MaxRetries a caller asks for
MaxFactorMs == 3     \* the largest BackOffDelayFactor a caller asks for, ms
MaxBodyLen == 2      \* the longest request body
DrawEdge == 0        \* rand.Intn(n) draws r with r <= DrawEdge or r >= n-1-DrawEdge
CallTime == 1        \* what one transport round trip takes on the clock
NCallers == 2        \* the Do calls that run concurrently
SourceStates == 4    \* the states of the random source that are told apart

(***************************************************************************)
(* time.Duration units, in microseconds.                                   *)
(***************************************************************************)
Millisecond == 1000
Second == 1000 * Millisecond

NoResponse == 0
NilError == "nil"

(***************************************************************************)
(* Options and NewClient.                                                  *)
(***************************************************************************)
NewDefaultOptions ==
    [MaxRetries |-> 3, Timeout |-> 1 * Second,
     BackOffDelayFactor |-> 1 * Second, KeepLog |-> FALSE]

defaultOptions == NewDefaultOptions

nullOptions ==
    [MaxRetries |-> 0, Timeout |-> 0, BackOffDelayFactor |-> 0, KeepLog |-> FALSE]

\* NewClient taking the defaults only when no option at all is set.
NewClientAllOrNothing(opts) ==
    IF opts = nullOptions THEN defaultOptions ELSE opts

NewClient(opts) ==
    LET timeout == IF opts.Timeout = nullOptions.Timeout
                   THEN defaultOptions.Timeout ELSE opts.Timeout
        maxRetries == IF opts.MaxRetries = nullOptions.MaxRetries
                      THEN defaultOptions.MaxRetries ELSE opts.MaxRetries
        backOffDelay == IF opts.BackOffDelayFactor = nullOptions.BackOffDelayFactor
                        THEN defaultOptions.BackOffDelayFactor
                        ELSE opts.BackOffDelayFactor
    IN [MaxRetries |-> maxRetries, Timeout |-> timeout,
        BackOffDelayFactor |-> backOffDelay, KeepLog |-> opts.KeepLog]

\* The options callers pass to NewClient.
CallerOptions ==
    [MaxRetries : (-1)..MaxMaxRetries,
     Timeout : {0, 10 * Millisecond},
     BackOffDelayFactor : {0, Millisecond \div 2}
                          \cup {k * Millisecond : k \in 1..MaxFactorMs},
     KeepLog : BOOLEAN]

(***************************************************************************)
(* Request bodies: absent, or a stream of bytes whose read may fail.       *)
(***************************************************************************)
BodyBytes == {[i \in 1..n |-> i] : n \in 0..MaxBodyLen}

CallerBodies ==
    {[present |-> FALSE, data |-> <<>>, off |-> 0, closed |-> FALSE, fails |-> FALSE]}
    \cup [present : {TRUE}, data : BodyBytes, off : {0}, closed : {FALSE},
          fails : BOOLEAN]

\* The bytes a reader over data at offset off still yields.
Rest(data, off) == SubSeq(data, off + 1, Len(data))

NilBytes == [isNil |-> TRUE, bytes |-> <<>>]

\* readBody with the error of ioutil.ReadAll dropped.
readBodyDropsError(body) ==
    IF ~body.present \/ body.fails THEN [bytes |-> NilBytes, err |-> NilError]
    ELSE [bytes |-> [isNil |-> FALSE, bytes |-> Rest(body.data, body.off)],
          err |-> NilError]

\* readBody: nil for a nil body, else everything ioutil.ReadAll yields.
readBody(body) ==
    IF ~body.present THEN [bytes |-> NilBytes, err |-> NilError]
    ELSE IF body.fails THEN [bytes |-> NilBytes, err |-> "read failed"]
    ELSE [bytes |-> [isNil |-> FALSE, bytes |-> Rest(body.data, body.off)],
          err |-> NilError]

(***************************************************************************)
(* Errors Do returns.                                                      *)
(***************************************************************************)
NoError == [kind |-> "nil", Retries |-> 0, Errors |-> <<>>, LastError |-> NilError]

PlainError(e) == [kind |-> "error", Retries |-> 0, Errors |-> <<>>, LastError |-> e]

FailAwareHTTPError(r, log, e) ==
    [kind |-> "FailAwareHTTPError", Retries |-> r, Errors |-> log, LastError |-> e]

errEntryNow(err, rsp, started, finished) ==
    [err |-> err, response |-> rsp,
     timestampStarted |-> started, timestampFinished |-> finished]

(***************************************************************************)
(* The transport and the random source.                                    *)
(***************************************************************************)
Statuses == {200, 400, 429, 499, 500}

\* What httpClient.Do answers: a cancelled context makes it fail.
TransportOutcomes ==
    IF cancelled THEN {[err |-> "context canceled", status |-> NoResponse]}
    ELSE {[err |-> "dial tcp", status |-> NoResponse]}
         \cup {[err |-> NilError, status |-> s] : s \in Statuses}

\* The values rand.Intn(n) is drawn from, n > 0.
IntnValues(n) == {r \in 0..(n - 1) : r <= DrawEdge \/ r >= n - 1 - DrawEdge}

(***************************************************************************)
(* expJitterBackOff.  random.Intn(2*maxJitter) panics unless its argument  *)
(* is positive; r is what it draws otherwise.                              *)
(***************************************************************************)
\* 1 << uint(retries)
Exp(retries) == 2 ^ retries

\* ms before the jitter: exp * int(backOffDelayFactor/time.Millisecond)
BaseMs(retries, backOffDelayFactor) ==
    Exp(retries) * (backOffDelayFactor \div Millisecond)

\* maxJitter := ms / 3
MaxJitter(retries, backOffDelayFactor) ==
    BaseMs(retries, backOffDelayFactor) \div 3

\* the argument random.Intn is called with
IntnArg(retries, backOffDelayFactor) ==
    2 * MaxJitter(retries, backOffDelayFactor)

\* rand.Intn(n) panics for n <= 0
IntnPanics(n) == n <= 0

expJitterBackOff(retries, backOffDelayFactor, r) ==
    LET ms0 == BaseMs(retries, backOffDelayFactor)
        maxJitter == ms0 \div 3
        ms1 == ms0 + (r - maxJitter)
        ms == IF ms1 <= 0 THEN 1 ELSE ms1
    IN ms * Millisecond

(***************************************************************************)
(* The classification of line 194: the outcome that ends the loop.         *)
(***************************************************************************)
\* The classification with the bound on the status set too low.
IsTerminalSuccessBelow400(err, status) ==
    err = NilError /\ status < 400

IsTerminalSuccess(err, status) ==
    err = NilError /\ status < 500 /\ status # 429

(***************************************************************************)
(* Initial state: a client built by NewClient from the caller's options,   *)
(* and a request with the caller's body, before Do is called.              *)
(***************************************************************************)
\* The concurrent calls before their first attempt, the source at state v.
ConcStart(v) ==
    [pc |-> [c \in 1..NCallers |-> "attempt"],
     retried |-> [c \in 1..NCallers |-> 0],
     loaded |-> [c \in 1..NCallers |-> 0],
     source |-> v]

Init ==
    /\ conc = ConcStart(0)
    /\ callerOptions \in CallerOptions
    /\ options = NewClient(callerOptions)
    /\ origBody \in CallerBodies
    /\ reqBody = IF origBody.present THEN "orig" ELSE "nil"
    /\ replay = [data |-> <<>>, off |-> 0]
    /\ originalBody = NilBytes
    /\ lastResponse = NoResponse
    /\ lastError = NilError
    /\ retried = 0
    /\ errLog = <<>>
    /\ jitter = 0
    /\ pc = "start"
    /\ now = 0
    /\ cancelled = FALSE
    /\ retResp = NoResponse
    /\ retErr = NoError
    /\ debugLog = <<>>
    /\ outcomes = <<>>
    /\ sent = <<>>
    /\ waits = <<>>
    /\ partlyRead = FALSE
    /\ cancelPc = "none"
    /\ cancelCalls = 0

\* The deferred function of Do: closes what originalReq.Body points to now.
DeferredClose(body) ==
    IF reqBody = "orig" THEN [body EXCEPT !.closed = TRUE] ELSE body

\* Lines 166-174: read the body; a read error ends the call.
DoReadBody ==
    /\ pc = "start"
    /\ LET rd == readBody(origBody)
           consumed == IF origBody.present /\ ~origBody.fails
                       THEN [origBody EXCEPT !.off = Len(origBody.data)]
                       ELSE origBody
       IN /\ originalBody' = rd.bytes
          /\ IF rd.err # NilError
             THEN /\ pc' = "returned"
                  /\ retResp' = NoResponse
                  /\ retErr' = PlainError(rd.err)
                  /\ origBody' = DeferredClose(consumed)
             ELSE /\ pc' = "loop"
                  /\ origBody' = consumed
                  /\ UNCHANGED <<retResp, retErr>>
    /\ UNCHANGED <<conc, callerOptions, options, reqBody, replay, lastResponse, lastError, retried,
                   errLog, jitter, now, cancelled, debugLog, outcomes, sent,
                   waits, cancelPc, cancelCalls, partlyRead>>

\* The body replaced on the first iteration only: later calls get the
\* reader the call before them has read from.
ReplayBodyOnce ==
    IF ~originalBody.isNil /\ reqBody # "replay"
    THEN [body |-> "replay", reader |-> [data |-> originalBody.bytes, off |-> 0]]
    ELSE [body |-> reqBody, reader |-> replay]

\* Lines 182-186: the body the request carries into the next transport call.
ReplayBody ==
    IF ~originalBody.isNil
    THEN [body |-> "replay", reader |-> [data |-> originalBody.bytes, off |-> 0]]
    ELSE [body |-> reqBody, reader |-> replay]

\* What the transport can read from the body it is handed.
Handed(body, reader) ==
    IF body = "nil" THEN [present |-> FALSE, bytes |-> <<>>]
    ELSE IF body = "replay"
    THEN [present |-> TRUE, bytes |-> Rest(reader.data, reader.off)]
    ELSE [present |-> TRUE, bytes |-> Rest(origBody.data, origBody.off)]

\* The iteration keeping a log entry only for a transport error.
AttemptLogsErrorsOnly ==
    /\ pc = "loop"
    /\ retried < options.MaxRetries
    /\ LET rb == ReplayBody
           h == Handed(rb.body, rb.reader)
           started == now
       IN \E o \in TransportOutcomes, n \in 0..Len(h.bytes) :
            /\ reqBody' = rb.body
            /\ sent' = Append(sent, h)
            /\ replay' = IF rb.body = "replay"
                         THEN [rb.reader EXCEPT !.off = @ + n] ELSE rb.reader
            /\ origBody' = IF rb.body = "orig"
                           THEN [origBody EXCEPT !.off = @ + n, !.closed = TRUE]
                           ELSE origBody
            /\ now' = now + CallTime
            /\ lastResponse' = o.status
            /\ lastError' = o.err
            /\ outcomes' = Append(outcomes, o)
            /\ partlyRead' = (partlyRead \/ (0 < n /\ n < Len(h.bytes)))
            /\ errLog' = IF options.KeepLog /\ o.err # NilError
                         THEN Append(errLog, errEntryNow(o.err, o.status, started, now'))
                         ELSE errLog
    /\ pc' = "evaluating"
    /\ UNCHANGED <<conc, callerOptions, options, originalBody, retried, jitter, cancelled, retResp,
                   retErr, debugLog, waits, cancelPc, cancelCalls>>

\* Lines 180-192: one iteration up to the log entry: replace the body, call
\* the transport (which reads some of the body and closes it), keep the log.
Attempt ==
    /\ pc = "loop"
    /\ retried < options.MaxRetries
    /\ LET rb == ReplayBody
           h == Handed(rb.body, rb.reader)
           started == now
       IN \E o \in TransportOutcomes, n \in 0..Len(h.bytes) :
            /\ reqBody' = rb.body
            /\ sent' = Append(sent, h)
            /\ replay' = IF rb.body = "replay"
                         THEN [rb.reader EXCEPT !.off = @ + n] ELSE rb.reader
            /\ origBody' = IF rb.body = "orig"
                           THEN [origBody EXCEPT !.off = @ + n, !.closed = TRUE]
                           ELSE origBody
            /\ now' = now + CallTime
            /\ lastResponse' = o.status
            /\ lastError' = o.err
            /\ outcomes' = Append(outcomes, o)
            /\ partlyRead' = (partlyRead \/ (0 < n /\ n < Len(h.bytes)))
            /\ errLog' = IF options.KeepLog
                         THEN Append(errLog, errEntryNow(o.err, o.status, started, now'))
                         ELSE errLog
    /\ pc' = "evaluating"
    /\ UNCHANGED <<conc, callerOptions, options, originalBody, retried, jitter, cancelled, retResp,
                   retErr, debugLog, waits, cancelPc, cancelCalls>>

\* Lines 194-197: a terminal outcome is returned as it is.
ReturnTerminal ==
    /\ pc = "evaluating"
    /\ IsTerminalSuccess(lastError, lastResponse)
    /\ retResp' = lastResponse
    /\ retErr' = NoError
    /\ origBody' = DeferredClose(origBody)
    /\ pc' = "returned"
    /\ UNCHANGED <<conc, callerOptions, options, reqBody, replay, originalBody, lastResponse,
                   lastError, retried, errLog, jitter, now, cancelled, debugLog,
                   outcomes, sent, waits, cancelPc, cancelCalls, partlyRead>>

\* The wait left out after the attempt with the last index.
BackoffUnlessLast ==
    /\ pc = "evaluating"
    /\ ~IsTerminalSuccess(lastError, lastResponse)
    /\ IF retried + 1 < options.MaxRetries
       THEN /\ ~IntnPanics(IntnArg(retried, options.BackOffDelayFactor))
            /\ \E r \in IntnValues(IntnArg(retried, options.BackOffDelayFactor)) :
                 jitter' = expJitterBackOff(retried, options.BackOffDelayFactor, r)
            /\ pc' = "waiting"
            /\ UNCHANGED retried
       ELSE /\ retried' = retried + 1
            /\ pc' = "loop"
            /\ UNCHANGED jitter
    /\ UNCHANGED <<conc, callerOptions, options, origBody, reqBody, replay,
                   originalBody, lastResponse, lastError, errLog, now,
                   cancelled, retResp, retErr, debugLog, outcomes, sent, waits,
                   cancelPc, cancelCalls, partlyRead>>

\* Line 201: the wait of this iteration.
Backoff ==
    /\ pc = "evaluating"
    /\ ~IsTerminalSuccess(lastError, lastResponse)
    /\ ~IntnPanics(IntnArg(retried, options.BackOffDelayFactor))
    /\ \E r \in IntnValues(IntnArg(retried, options.BackOffDelayFactor)) :
         jitter' = expJitterBackOff(retried, options.BackOffDelayFactor, r)
    /\ pc' = "waiting"
    /\ UNCHANGED <<conc, callerOptions, options, origBody, reqBody, replay, originalBody,
                   lastResponse, lastError, retried, errLog, now, cancelled,
                   retResp, retErr, debugLog, outcomes, sent, waits, cancelPc,
                   cancelCalls, partlyRead>>

\* Line 201 when random.Intn panics: Do unwinds, running its deferred close.
BackoffPanic ==
    /\ pc = "evaluating"
    /\ ~IsTerminalSuccess(lastError, lastResponse)
    /\ IntnPanics(IntnArg(retried, options.BackOffDelayFactor))
    /\ origBody' = DeferredClose(origBody)
    /\ pc' = "panicked"
    /\ UNCHANGED <<conc, callerOptions, options, reqBody, replay, originalBody, lastResponse,
                   lastError, retried, errLog, jitter, now, cancelled, retResp,
                   retErr, debugLog, outcomes, sent, waits, cancelPc,
                   cancelCalls, partlyRead>>

\* Lines 203-204 and the loop's retried++: the wait elapses, whatever the
\* request's context says, and the retry notice is logged.
Wait ==
    /\ pc = "waiting"
    /\ now' = now + jitter
    /\ waits' = Append(waits, jitter)
    /\ debugLog' = Append(debugLog, [retry |-> retried + 1, waited |-> jitter])
    /\ retried' = retried + 1
    /\ pc' = "loop"
    /\ UNCHANGED <<conc, callerOptions, options, origBody, reqBody, replay, originalBody,
                   lastResponse, lastError, errLog, jitter, cancelled, retResp,
                   retErr, outcomes, sent, cancelPc, cancelCalls, partlyRead>>

\* The end of the loop without the test of lastError.
ExhaustAlwaysError ==
    /\ pc = "loop"
    /\ ~(retried < options.MaxRetries)
    /\ retResp' = lastResponse
    /\ retErr' = FailAwareHTTPError(retried, errLog, lastError)
    /\ origBody' = DeferredClose(origBody)
    /\ pc' = "returned"
    /\ UNCHANGED <<conc, callerOptions, options, reqBody, replay, originalBody, lastResponse,
                   lastError, retried, errLog, jitter, now, cancelled, debugLog,
                   outcomes, sent, waits, cancelPc, cancelCalls, partlyRead>>

\* The end of the loop reporting the retries after the first attempt.
ExhaustCountsFromSecond ==
    /\ pc = "loop"
    /\ ~(retried < options.MaxRetries)
    /\ retResp' = lastResponse
    /\ retErr' = IF lastError = NilError THEN NoError
                 ELSE FailAwareHTTPError(retried - 1, errLog, lastError)
    /\ origBody' = DeferredClose(origBody)
    /\ pc' = "returned"
    /\ UNCHANGED <<conc, callerOptions, options, reqBody, replay, originalBody,
                   lastResponse, lastError, retried, errLog, jitter, now,
                   cancelled, debugLog, outcomes, sent, waits, cancelPc,
                   cancelCalls, partlyRead>>

\* Lines 207-210: the loop is over.
Exhaust ==
    /\ pc = "loop"
    /\ ~(retried < options.MaxRetries)
    /\ retResp' = lastResponse
    /\ retErr' = IF lastError = NilError THEN NoError
                 ELSE FailAwareHTTPError(retried, errLog, lastError)
    /\ origBody' = DeferredClose(origBody)
    /\ pc' = "returned"
    /\ UNCHANGED <<conc, callerOptions, options, reqBody, replay, originalBody, lastResponse,
                   lastError, retried, errLog, jitter, now, cancelled, debugLog,
                   outcomes, sent, waits, cancelPc, cancelCalls, partlyRead>>

\* The caller cancels the request's context: before Do is called, or while
\* Do waits.  (Do reads the signal nowhere; only the transport does.)
Cancel ==
    /\ ~cancelled
    /\ pc \in {"start", "waiting"}
    /\ cancelled' = TRUE
    /\ cancelPc' = pc
    /\ cancelCalls' = Len(outcomes)
    /\ UNCHANGED <<conc, callerOptions, options, origBody, reqBody, replay, originalBody,
                   lastResponse, lastError, retried, errLog, jitter, pc, now,
                   retResp, retErr, debugLog, outcomes, sent, waits, partlyRead>>

Next ==
    \/ DoReadBody
    \/ Attempt
    \/ ReturnTerminal
    \/ Backoff
    \/ BackoffPanic
    \/ Wait
    \/ Exhaust
    \/ Cancel

Spec == Init /\ [][Next]_vars

(***************************************************************************)
(* Several Do calls at once on one client.  Each runs the loop of Do; the  *)
(* only state they share is the package's random source, which             *)
(* expJitterBackOff draws from with no lock: random.Intn reads the state   *)
(* of the source and writes the advanced state back, in two steps.         *)
(***************************************************************************)
Callers == 1..NCallers

InitShared ==
    /\ \E v \in 0..(SourceStates - 1) : conc = ConcStart(v)
    /\ callerOptions \in {o \in CallerOptions : o.Timeout = 0 /\ ~o.KeepLog}
    /\ options = NewClient(callerOptions)
    /\ origBody = [present |-> FALSE, data |-> <<>>, off |-> 0,
                   closed |-> FALSE, fails |-> FALSE]
    /\ reqBody = "nil"
    /\ replay = [data |-> <<>>, off |-> 0]
    /\ originalBody = NilBytes
    /\ lastResponse = NoResponse
    /\ lastError = NilError
    /\ retried = 0
    /\ errLog = <<>>
    /\ jitter = 0
    /\ pc = "start"
    /\ now = 0
    /\ cancelled = FALSE
    /\ retResp = NoResponse
    /\ retErr = NoError
    /\ debugLog = <<>>
    /\ outcomes = <<>>
    /\ sent = <<>>
    /\ waits = <<>>
    /\ partlyRead = FALSE
    /\ cancelPc = "none"
    /\ cancelCalls = 0

\* Lines 180-199 of call c: an attempt with a terminal answer returns.
ConcTerminal(c) ==
    /\ conc.pc[c] = "attempt"
    /\ conc.retried[c] < options.MaxRetries
    /\ conc' = [conc EXCEPT !.pc[c] = "done"]
    /\ UNCHANGED callVars

\* Lines 180-201 of call c: an attempt with a retryable answer goes on to
\* expJitterBackOff.
ConcRetryable(c) ==
    /\ conc.pc[c] = "attempt"
    /\ conc.retried[c] < options.MaxRetries
    /\ conc' = [conc EXCEPT !.pc[c] = "backoff"]
    /\ UNCHANGED callVars

\* Lines 207-210 of call c.
ConcExhaust(c) ==
    /\ conc.pc[c] = "attempt"
    /\ ~(conc.retried[c] < options.MaxRetries)
    /\ conc' = [conc EXCEPT !.pc[c] = "done"]
    /\ UNCHANGED callVars

\* Line 229 of call c: random.Intn starts and reads the state of the source.
IntnLoad(c) ==
    /\ conc.pc[c] = "backoff"
    /\ ~IntnPanics(IntnArg(conc.retried[c], options.BackOffDelayFactor))
    /\ conc' = [conc EXCEPT !.pc[c] = "inIntn", !.loaded[c] = conc.source]
    /\ UNCHANGED callVars

\* Line 229 of call c: random.Intn panics.
IntnPanic(c) ==
    /\ conc.pc[c] = "backoff"
    /\ IntnPanics(IntnArg(conc.retried[c], options.BackOffDelayFactor))
    /\ conc' = [conc EXCEPT !.pc[c] = "panicked"]
    /\ UNCHANGED callVars

\* Line 229 of call c: random.Intn writes the advanced state and returns.
IntnStore(c) ==
    /\ conc.pc[c] = "inIntn"
    /\ conc' = [conc EXCEPT !.pc[c] = "waiting",
                            !.source = (conc.loaded[c] + 1) % SourceStates]
    /\ UNCHANGED callVars

\* Lines 203-204 of call c and its retried++.
ConcWait(c) ==
    /\ conc.pc[c] = "waiting"
    /\ conc' = [conc EXCEPT !.pc[c] = "attempt", !.retried[c] = @ + 1]
    /\ UNCHANGED callVars

NextShared ==
    \E c \in Callers :
        \/ ConcTerminal(c)
        \/ ConcRetryable(c)
        \/ ConcExhaust(c)
        \/ IntnLoad(c)
        \/ IntnPanic(c)
        \/ IntnStore(c)
        \/ ConcWait(c)

SpecShared == InitShared /\ [][NextShared]_vars

(***************************************************************************)
(* Vocabulary of the properties, stated on the history of the call.        *)
(***************************************************************************)
Calls == Len(outcomes)

Done == pc \in {"returned", "panicked"}

\* Do returned from the loop or after it, not from a failed body read.
ReturnedFromLoop == pc = "returned" /\ retErr.kind # "error"

\* An outcome with no error and a status below 500 other than 429.
TerminalOutcome(o) == o.err = NilError /\ o.status < 500 /\ o.status # 429

\* An outcome with status 500 or 429 and no transport error.
ServerRetryable(o) == o.err = NilError /\ o.status \in {429, 500}

NoTerminalOutcome == \A k \in 1..Calls : ~TerminalOutcome(outcomes[k])

LastOutcome ==
    IF Calls = 0 THEN [err |-> NilError, status |-> NoResponse]
    ELSE outcomes[Calls]

\* The log holds one entry per call, with that call's error and response.
LogMatchesCalls(log) ==
    /\ Len(log) = Calls
    /\ \A k \in 1..Calls : /\ log[k].err = outcomes[k].err
                           /\ log[k].response = outcomes[k].status
                           /\ log[k].timestampStarted <= log[k].timestampFinished
    /\ \A k \in 1..(Calls - 1) :
         log[k].timestampStarted < log[k + 1].timestampStarted

(***************************************************************************)
(* C1: a transport answer with no error and a status below 500 other than  *)
(* 429, on any attempt k, is the last answer of the call: Do is then       *)
(* either about to return or has returned exactly that response with a nil *)
(* error, after k transport calls and the k-1 waits between them, with no  *)
(* wait and no call after it.                                              *)
(***************************************************************************)
C1_TerminalReturnsAtOnce ==
    \A k \in 1..Calls :
        TerminalOutcome(outcomes[k]) =>
            /\ k = Calls
            /\ Len(waits) = k - 1
            /\ pc \in {"evaluating", "returned"}
            /\ pc = "evaluating" => ENABLED ReturnTerminal
            /\ pc = "returned" => /\ retResp = outcomes[k].status
                                  /\ retErr = NoError

\* Do has returned a 400 answered on the second attempt.
C1_Witness ==
    /\ pc = "returned"
    /\ Calls = 2
    /\ outcomes[2] = [err |-> NilError, status |-> 400]
    /\ retResp = 400
    /\ retErr = NoError

(***************************************************************************)
(* C2, as stated: when the call is over, a retryable last answer means     *)
(* that no attempt was left (MaxRetries calls were made), and a transport  *)
(* that answered 500 or 429 every time was called exactly MaxRetries times.*)
(***************************************************************************)
C2_Claim ==
    (Done /\ retErr.kind # "error" /\ options.MaxRetries >= 1) =>
        /\ (Calls >= 1 /\ ~TerminalOutcome(LastOutcome)) =>
               Calls >= options.MaxRetries
        /\ (\A k \in 1..Calls : ServerRetryable(outcomes[k])) =>
               Calls = options.MaxRetries

(***************************************************************************)
(* C3, as stated: with MaxRetries = N >= 1 and a transport that fails with *)
(* an error on every attempt, the call ends by returning a                 *)
(* FailAwareHTTPError with Retries = N, whose log, with KeepLog, has the N *)
(* attempts in the order they were started.                                *)
(***************************************************************************)
C3_Claim ==
    (/\ Done
     /\ retErr.kind # "error"
     /\ options.MaxRetries >= 1
     /\ \A k \in 1..Calls : outcomes[k].err # NilError) =>
        /\ pc = "returned"
        /\ retErr.kind = "FailAwareHTTPError"
        /\ retErr.Retries = options.MaxRetries
        /\ options.KeepLog => /\ Len(retErr.Errors) = options.MaxRetries
                              /\ LogMatchesCalls(retErr.Errors)

C5_Claim ==
    (ReturnedFromLoop /\ cancelPc = "start" /\ options.MaxRetries >= 1) =>
        /\ retResp = NoResponse
        /\ retErr.kind = "FailAwareHTTPError"
        /\ retErr.Retries = 0

(***************************************************************************)
(* C6, as stated: once the context is cancelled during a backoff wait, Do  *)
(* starts no further transport call, and the failure it returns reports    *)
(* the attempts completed before the abort.                                *)
(***************************************************************************)
C6_Claim ==
    cancelPc = "waiting" =>
        /\ Calls = cancelCalls
        /\ (pc = "returned" /\ retErr.kind = "FailAwareHTTPError") =>
               retErr.Retries = cancelCalls

(***************************************************************************)
(* C7: on every attempt the transport is handed the whole body the caller  *)
(* attached, from offset zero, whatever the attempts before it read of     *)
(* theirs: attempt k is sent what attempt 1 was sent; with no body         *)
(* attached, every attempt is handed no body.                              *)
(***************************************************************************)
C7_SameBodyEveryAttempt ==
    \A k \in 1..Len(sent) :
        /\ sent[k] = sent[1]
        /\ sent[k].present = origBody.present
        /\ sent[k].bytes = origBody.data

\* A third attempt was handed the two-byte body after an earlier attempt
\* had read one byte of it.
C7_Witness ==
    /\ Len(sent) = 3
    /\ partlyRead
    /\ Len(origBody.data) = 2
    /\ sent[3].bytes = origBody.data

(***************************************************************************)
(* C8, as stated: when Do has returned, a body the caller attached to the  *)
(* request is closed.                                                      *)
(***************************************************************************)
C8_Claim ==
    (pc = "returned" /\ origBody.present) => origBody.closed

(***************************************************************************)
(* C9, as stated: for attempt index i and a factor of f whole              *)
(* milliseconds, expJitterBackOff returns base + j with base = 2^i * f,    *)
(* maxJitter = base / 3 and -maxJitter <= j < maxJitter, floored at 1 ms,  *)
(* so within [base - base/3, base + base/3].                               *)
(***************************************************************************)
C9_Claim ==
    (options.BackOffDelayFactor % Millisecond = 0) =>
        /\ pc # "panicked"
        /\ pc = "waiting" =>
             LET base == (2 ^ retried) * (options.BackOffDelayFactor \div Millisecond)
                 maxJitter == base \div 3
             IN /\ \E j \in (-maxJitter)..(maxJitter - 1) :
                      jitter = (IF base + j <= 0 THEN 1 ELSE base + j) * Millisecond
                /\ jitter >= (base - maxJitter) * Millisecond
                /\ jitter <= (base + maxJitter) * Millisecond

(***************************************************************************)
(* C10, as stated: for every attempt index and every positive factor,      *)
(* expJitterBackOff completes and returns at least 1 ms.                   *)
(***************************************************************************)
C10_Claim ==
    (options.BackOffDelayFactor > 0) =>
        /\ pc # "panicked"
        /\ pc = "waiting" => jitter >= 1 * Millisecond

(***************************************************************************)
(* C11: when the read of the request's body fails, Do makes no transport   *)
(* call and no backoff wait, and returns a nil response together with the  *)
(* read error.                                                             *)
(***************************************************************************)
C11_ReadErrorEndsCall ==
    (origBody.present /\ origBody.fails) =>
        /\ Calls = 0
        /\ waits = <<>>
        /\ pc \in {"start", "returned"}
        /\ pc = "start" => ENABLED DoReadBody
        /\ pc = "returned" => /\ retResp = NoResponse
                              /\ retErr = PlainError("read failed")

\* Do has returned the read error of a two-byte body.
C11_Witness ==
    /\ pc = "returned"
    /\ origBody.present /\ origBody.fails /\ Len(origBody.data) = 2
    /\ retErr = PlainError("read failed")
    /\ Calls = 0

(***************************************************************************)
(* C12: NewClient resolves each option on its own: MaxRetries, Timeout and *)
(* BackOffDelayFactor are the defaults (3, 1 s, 1 s) where the caller's    *)
(* field is zero and the caller's value otherwise, whatever the other      *)
(* fields are; KeepLog is the caller's.                                    *)
(***************************************************************************)
C12_FieldByFieldDefaults ==
    /\ options.MaxRetries =
         IF callerOptions.MaxRetries = 0 THEN 3 ELSE callerOptions.MaxRetries
    /\ options.Timeout =
         IF callerOptions.Timeout = 0 THEN 1000000 ELSE callerOptions.Timeout
    /\ options.BackOffDelayFactor =
         IF callerOptions.BackOffDelayFactor = 0 THEN 1000000
         ELSE callerOptions.BackOffDelayFactor
    /\ options.KeepLog = callerOptions.KeepLog

\* A call runs on a client whose caller set the timeout and KeepLog and left
\* MaxRetries and the factor at zero.
C12_Witness ==
    /\ pc = "evaluating"
    /\ callerOptions = [MaxRetries |-> 0, Timeout |-> 10000,
                        BackOffDelayFactor |-> 0, KeepLog |-> TRUE]
    /\ options = [MaxRetries |-> 3, Timeout |-> 10000,
                  BackOffDelayFactor |-> 1000000, KeepLog |-> TRUE]

\* The attempts so far whose outcome was not terminal.
RetryableCalls == Cardinality({k \in 1..Calls : ~TerminalOutcome(outcomes[k])})

(***************************************************************************)
(* C13, amended: Do performs one backoff wait after every retryable        *)
(* attempt, the attempt with the last index (MaxRetries - 1) included,     *)
(* before it goes on: at the head of the loop and at every return the      *)
(* waits performed are as many as the retryable attempts (k waits for a    *)
(* call that is exhausted after k attempts, k-1 for a call whose attempt k *)
(* is terminal); only between a retryable answer and the end of its wait   *)
(* is one wait still missing.                                              *)
(***************************************************************************)
C13_WaitAfterEveryRetryable ==
    /\ Len(waits) =
         IF pc \in {"evaluating", "waiting", "panicked"}
            /\ ~TerminalOutcome(LastOutcome)
         THEN RetryableCalls - 1
         ELSE RetryableCalls
    /\ (pc = "waiting" /\ Calls = options.MaxRetries) => ENABLED Wait

\* Do has returned by exhaustion after two attempts and two waits.
C13_Witness ==
    /\ pc = "returned"
    /\ options.MaxRetries = 2
    /\ Calls = 2
    /\ RetryableCalls = 2
    /\ Len(waits) = 2

(***************************************************************************)
(* C13, as stated: a call that has returned after k attempts has performed *)
(* exactly k-1 waits, none after the attempt with the last index.          *)
(***************************************************************************)
C13_Claim ==
    (pc = "returned" /\ Calls >= 1) => Len(waits) = Calls - 1

(***************************************************************************)
(* C14, as stated: when the call is over, one retry notice was emitted per *)
(* retryable attempt, in order, the i-th carrying the number i and the     *)
(* wait performed after the i-th attempt; with MaxRetries = 3 and a        *)
(* transport that failed every time the notices are numbered 1, 2, 3.      *)
(***************************************************************************)
C14_Claim ==
    (Done /\ retErr.kind # "error") =>
        /\ Len(debugLog) = RetryableCalls
        /\ Len(debugLog) = Len(waits)
        /\ \A i \in 1..Len(debugLog) : /\ debugLog[i].retry = i
                                       /\ debugLog[i].waited = waits[i]
        /\ (/\ options.MaxRetries = 3
            /\ Calls >= 1
            /\ \A k \in 1..Calls : outcomes[k].err # NilError) =>
               [i \in 1..Len(debugLog) |-> debugLog[i].retry] = <<1, 2, 3>>

(***************************************************************************)
(* C15: at every point of the call the attempt log holds one record per    *)
(* transport call made so far, terminal or retryable, in attempt order,    *)
(* when KeepLog is set, and is empty when it is not; a FailAwareHTTPError  *)
(* returned has as many Errors as Retries with KeepLog and none without.   *)
(***************************************************************************)
C15_LogPerCall ==
    /\ IF options.KeepLog THEN LogMatchesCalls(errLog) ELSE errLog = <<>>
    /\ retErr.kind = "FailAwareHTTPError" =>
         IF options.KeepLog THEN Len(retErr.Errors) = retErr.Retries
         ELSE retErr.Errors = <<>>

\* With KeepLog, Do has returned a 200 answered on the second attempt; the
\* log holds the 500 of the first attempt and the 200.
C15_Witness ==
    /\ pc = "returned"
    /\ options.KeepLog
    /\ Calls = 2
    /\ Len(errLog) = 2
    /\ errLog[1].response = 500
    /\ errLog[2].response = 200

DoStep ==
    DoReadBody \/ Attempt \/ ReturnTerminal \/ Backoff \/ BackoffPanic \/ Wait
    \/ Exhaust

(***************************************************************************)
(* C18, as stated: a call makes at most MaxRetries transport calls and,    *)
(* its transport calls and waits all ending, goes on until it returns to   *)
(* the caller: it never stops short of a return.                           *)
(***************************************************************************)
C18_Claim ==
    /\ Calls <= (IF options.MaxRetries > 0 THEN options.MaxRetries ELSE 0)
    /\ pc = "returned" \/ ENABLED DoStep

(***************************************************************************)
(* C19, as stated: for a client built by NewClient from any options and a  *)
(* request whose body can be read, a Do that has returned has made at      *)
(* least one transport call and has not returned a nil response together   *)
(* with a nil error.                                                       *)
(***************************************************************************)
C19_Claim ==
    ReturnedFromLoop =>
        /\ Calls >= 1
        /\ ~(retResp = NoResponse /\ retErr = NoError)

(***************************************************************************)
(* C17, as stated: of the Do calls that run at once, never two are inside  *)
(* the draw from the shared random source at the same time.                *)
(***************************************************************************)
C17_Claim ==
    \A c, d \in Callers :
        (conc.pc[c] = "inIntn" /\ conc.pc[d] = "inIntn") => c = d

====
